---- MODULE Spec2Model ----
(***************************************************************************)
(* HealthSaga: the local-first client (the HealthSaga React component) and *)
(* the snapshot service (server/index.js).                                 *)
(*                                                                         *)
(* Time is a counter; an ISO-8601 stamp is the value of the counter when   *)
(* it was taken and 0 stands for the empty string.  Comparing two stamps   *)
(* as strings is comparing the numbers.                                    *)
(*                                                                         *)
(* One step of the model is one piece of code that runs without awaiting.  *)
(* The passive effects of a render run after it.  Whether the microtask    *)
(* queued by applySnapshot runs before them depends on the root the        *)
(* component is mounted in (a batching root renders the updates of a       *)
(* promise continuation in a later task, hence after the microtask; a      *)
(* legacy root renders them inside the continuation); src/ does not hold   *)
(* the entry point, so both orders are behaviours of the model.            *)
(***************************************************************************)
EXTENDS Integers, Sequences, FiniteSets, TLC

VARIABLES
    now,                \* the wall clock, new Date()
    todayData,          \* useState(loadTodayData)
    todayStore,         \* localStorage 'healthsaga-today': <<>> or <<[date, data]>>
    walkReminders,      \* useLocalStorage 'healthsaga-reminders'
    metricsHistory,     \* useLocalStorage 'healthsaga-metrics-history'
    mindfulnessState,   \* useLocalStorage 'healthsaga-mindfulness'
    syncMeta,           \* useLocalStorage 'healthsaga-sync-meta'
    syncStatus,         \* useState 'idle' | 'syncing' | 'error' | 'success'
    syncError,          \* useState ''
    hasInitialized,     \* useRef(false)
    isApplyingSnapshot, \* useRef(false)
    microtask,          \* a queueMicrotask callback of applySnapshot is pending
    commit,             \* what caused the render whose effects have not run yet
    sync,               \* the running syncWithServer call: position, closure, messages
    row,                \* table snapshot of the service: <<>> or <<[payload, updated_at]>>
    ops,                \* user actions made so far
    metrics,            \* useLocalStorage 'healthsaga-metrics': the form of the metrics tab
    metricsTable,       \* table metrics of the service, oldest row first
    reminders,          \* table reminders of the service, ordered by time
    call,               \* a function evaluated on its own: its name and arguments
    result              \* <<>> or <<what the call returned>>

vars == <<now, todayData, todayStore, walkReminders, metricsHistory, mindfulnessState,
          syncMeta, syncStatus, syncError, hasInitialized, isApplyingSnapshot,
          microtask, commit, sync, row, ops, metrics, metricsTable, reminders, call, result>>

\* the state the sync protocol does not touch
aside == <<metrics, metricsTable, reminders, call, result>>

\* ---------------------------------------------------------------- bounds
MaxTicks == 1
MaxOps == 1
DayLen == 2
\* the clock at mount: the last part of day 1
InitNow == 2 * DayLen - 1
MaxTime == InitNow + MaxTicks
HydrationStep == 8
HydrationMax == 60

\* ---------------------------------------------------------------- helpers
\* no clamp
Min_First(a, b) == a

Min(a, b) == IF a < b THEN a ELSE b

\* getToday(): the calendar date of the clock
getToday(t) == t \div DayLen

\* getMindfulnessSlot(): morning in the first part of the day, evening otherwise
getMindfulnessSlot(t) == IF t % DayLen = 0 THEN "morning" ELSE "evening"

\* the content set (data/meditation_exercises.json): one item per tag
Exercises ==
    << [id |-> 1, timeOfDay |-> {"morning"}],
       [id |-> 2, timeOfDay |-> {"evening"}],
       [id |-> 3, timeOfDay |-> {"anytime"}] >>

RECURSIVE Filter(_, _, _)
Filter(s, slot, i) ==
    IF i > Len(s) THEN <<>>
    ELSE (IF slot \in s[i].timeOfDay \/ "anytime" \in s[i].timeOfDay
          THEN <<s[i]>> ELSE <<>>) \o Filter(s, slot, i + 1)

\* a pool without the fallback to the whole list
getMindfulnessPool_NoFallback(exercises, slot) == Filter(exercises, slot, 1)

getMindfulnessPool(exercises, slot) ==
    LET slotMatches == Filter(exercises, slot, 1)
    IN IF Len(slotMatches) > 0 THEN slotMatches ELSE exercises

PoolIds(pool) == [i \in 1..Len(pool) |-> pool[i].id]

\* the values Math.floor(Math.random() * (i + 1)) can take, one per index
RandomDraws(n) == {r \in [1..n -> 1..n] : \A i \in 1..n : r[i] <= i}

Swap(ids, i, j) == [ids EXCEPT ![i] = ids[j], ![j] = ids[i]]

RECURSIVE shuffleFrom(_, _, _)
shuffleFrom(ids, i, r) ==
    IF i <= 1 THEN ids ELSE shuffleFrom(Swap(ids, i, r[i]), i - 1, r)

\* buildMindfulnessQueue(pool), with the random draws r
buildMindfulnessQueue(pool, r) == shuffleFrom(PoolIds(pool), Len(pool), r)

\* (the supplement, meal and walk entries of the record are left out: no operation
\* of the model reads or writes them)
defaultTodayData == [hydration |-> 0, meditationCount |-> 0]

\* loadTodayData without the test of the date
loadTodayData_AnyDate(store, t) ==
    IF store # <<>> THEN store[1].data ELSE defaultTodayData

\* loadTodayData(): the stored data if it is dated today, else the default
loadTodayData(store, t) ==
    IF store # <<>> /\ store[1].date = getToday(t) THEN store[1].data
    ELSE defaultTodayData

DefaultReminders == <<TRUE, TRUE, TRUE>>

\* the regeneration test of the mindfulness effect
currentValid(ms, t) ==
    IF ms.currentId # 0
    THEN \E i \in 1..Len(getMindfulnessPool(Exercises, getMindfulnessSlot(t))) :
            getMindfulnessPool(Exercises, getMindfulnessSlot(t))[i].id = ms.currentId
    ELSE FALSE

\* a test that looks at the date only
NeedsRegeneration_DateOnly(ms, t) == ms.date # getToday(t)

NeedsRegeneration(ms, t) ==
    \/ ms.date # getToday(t)
    \/ ms.slot # getMindfulnessSlot(t)
    \/ ~currentValid(ms, t)

\* the state the regeneration effect sets for a pool: `[firstId, ...rest] = queue`,
\* currentId: firstId ?? ''
regenerateFor(pool, t, r) ==
    LET queue == buildMindfulnessQueue(pool, r)
    IN [date |-> getToday(t), slot |-> getMindfulnessSlot(t),
        remainingIds |-> IF queue = <<>> THEN <<>> ELSE Tail(queue),
        currentId |-> IF queue = <<>> THEN 0 ELSE Head(queue)]

Regenerated(t, r) ==
    regenerateFor(getMindfulnessPool(Exercises, getMindfulnessSlot(t)), t, r)

\* an updater of "Show another exercise" that clears the suggestion of an
\* exhausted queue
advance_Clears(prev) ==
    IF Len(prev.remainingIds) = 0 THEN [prev EXCEPT !.currentId = 0]
    ELSE [prev EXCEPT !.remainingIds = Tail(@), !.currentId = Head(prev.remainingIds)]

\* the updater of "Show another exercise"
advance(prev) ==
    IF Len(prev.remainingIds) = 0 THEN prev
    ELSE [prev EXCEPT !.remainingIds = Tail(@), !.currentId = Head(prev.remainingIds)]

\* JSON.stringify / JSON.parse of a snapshot: a text that parses back to the value
JsonStringify(d) == [text |-> "json", value |-> <<d>>]
\* a stored text that is not JSON
CorruptText == [text |-> "garbage", value |-> <<>>]
\* JSON.parse: <<value>>, or <<>> when it throws
JsonParse(p) == IF p.text = "json" THEN p.value ELSE <<>>

\* buildSnapshot(): c holds the values the callback closed over
buildSnapshot(c, store, t) ==
    [today |-> IF store # <<>> THEN store[1]
               ELSE [date |-> getToday(t), data |-> c.todayData],
     reminders |-> c.walkReminders,
     mindfulness |-> c.mindfulnessState,
     metricsHistory |-> c.metricsHistory]

\* the values a callback created by the current render closes over
Closure ==
    [updatedAt |-> syncMeta.updatedAt, todayData |-> todayData,
     walkReminders |-> walkReminders, mindfulnessState |-> mindfulnessState,
     metricsHistory |-> metricsHistory]

\* a history entry recorded at t that holds a heart rate only ("": no value)
StoredEntry(t) ==
    [recordedAt |-> t, systolic |-> "", diastolic |-> "", heartRate |-> "60",
     weight |-> "", respiratoryRate |-> ""]

\* the form of the metrics tab with nothing typed
MetricFields == {"systolic", "diastolic", "heartRate", "weight", "respiratoryRate"}

EmptyForm ==
    [systolic |-> "", diastolic |-> "", heartRate |-> "", weight |-> "",
     respiratoryRate |-> ""]

\* ---------------------------------------------------------------- initial state
\* What localStorage may hold when the component mounts.
StoredToday ==
    { <<>>,
      <<[date |-> getToday(InitNow) - 1, data |-> [hydration |-> 24, meditationCount |-> 1]]>>,
      <<[date |-> getToday(InitNow),
         data |-> [hydration |-> HydrationMax, meditationCount |-> 1]]>> }

\* (the default of a first launch, or a queue of this evening)
StoredMindfulness ==
    { [date |-> getToday(InitNow), slot |-> getMindfulnessSlot(InitNow),
       remainingIds |-> <<>>, currentId |-> 0],
      [date |-> getToday(InitNow), slot |-> "evening",
       remainingIds |-> <<2>>, currentId |-> 3] }

\* the stamps a store may hold at mount: none, an older one, one taken just now
StoredStamps == {0, InitNow - 1, InitNow}

StoredSyncMeta ==
    { [updatedAt |-> 0, lastSyncedAt |-> 0] } \cup
    { [updatedAt |-> u, lastSyncedAt |-> InitNow - 1] : u \in StoredStamps \ {0} }

\* What the snapshot table may hold when the client mounts.
\* (written this evening, or the evening before)
RemoteSnapshots ==
    { [today |-> [date |-> getToday(InitNow), data |-> [hydration |-> 8, meditationCount |-> 0]],
       reminders |-> <<FALSE, TRUE, TRUE>>,
       mindfulness |-> [date |-> getToday(InitNow), slot |-> "evening",
                        remainingIds |-> <<3>>, currentId |-> 2],
       metricsHistory |-> <<StoredEntry(InitNow - 1)>>],
      [today |-> [date |-> getToday(InitNow) - 1, data |-> [hydration |-> 8, meditationCount |-> 0]],
       reminders |-> <<FALSE, TRUE, TRUE>>,
       mindfulness |-> [date |-> getToday(InitNow) - 1, slot |-> "evening",
                        remainingIds |-> <<>>, currentId |-> 2],
       metricsHistory |-> <<StoredEntry(InitNow - 1)>>] }

StoredRows ==
    {<<>>} \cup
    { <<[payload |-> CorruptText, updated_at |-> InitNow]>> } \cup
    { <<[payload |-> JsonStringify(d), updated_at |-> s]>> :
        d \in RemoteSnapshots, s \in StoredStamps }

Init ==
    /\ now = InitNow
    /\ todayStore \in StoredToday
    /\ todayData = loadTodayData(todayStore, now)
    /\ walkReminders = DefaultReminders
    /\ metricsHistory = <<>>
    /\ mindfulnessState \in StoredMindfulness
    /\ syncMeta \in StoredSyncMeta
    /\ syncStatus = "idle"
    /\ syncError = ""
    /\ hasInitialized = FALSE
    /\ isApplyingSnapshot = FALSE
    /\ microtask = FALSE
    /\ commit = "mount"
    /\ sync = [pc |-> "idle", path |-> "none", cl |-> Closure,
               req |-> <<>>, resp |-> <<>>, ans |-> <<>>]
    /\ row \in StoredRows
    /\ ops = 0
    /\ metrics = EmptyForm
    /\ metricsTable = <<>>
    /\ reminders = <<>>
    /\ call = <<>>
    /\ result = <<>>

\* ---------------------------------------------------------------- client
\* no render, effect or microtask of the component is pending
ClientIdle == commit = "none" /\ ~microtask

\* the renders that change a dependency of the touch effect
Dirty == {"user", "apply", "regen"}

Tick ==
    /\ UNCHANGED aside
    /\ ClientIdle
    /\ now < MaxTime
    /\ now' = now + 1
    /\ UNCHANGED <<todayData, todayStore, walkReminders, metricsHistory, mindfulnessState,
                   syncMeta, syncStatus, syncError, hasInitialized, isApplyingSnapshot,
                   microtask, commit, sync, row, ops>>

\* setTodayData(next): what it leaves in localStorage
setTodayData(next, t) == <<[date |-> getToday(t), data |-> next]>>

\* touchSnapshot()
touchSnapshot(meta, t) == [meta EXCEPT !.updatedAt = t]

addHydration ==
    /\ UNCHANGED aside
    /\ ClientIdle /\ hasInitialized /\ ops < MaxOps
    /\ todayData' = [todayData EXCEPT !.hydration = Min(@ + HydrationStep, HydrationMax)]
    /\ todayStore' = setTodayData(todayData', now)
    /\ commit' = "user"
    /\ ops' = ops + 1
    /\ UNCHANGED <<now, walkReminders, metricsHistory, mindfulnessState, syncMeta,
                   syncStatus, syncError, hasInitialized, isApplyingSnapshot, microtask,
                   sync, row>>

toggleWalkReminder ==
    /\ UNCHANGED aside
    /\ ClientIdle /\ hasInitialized /\ ops < MaxOps
    /\ \E index \in 1..Len(walkReminders) :
          walkReminders' = [walkReminders EXCEPT ![index] = ~@]
    /\ commit' = "user"
    /\ ops' = ops + 1
    /\ UNCHANGED <<now, todayData, todayStore, metricsHistory, mindfulnessState, syncMeta,
                   syncStatus, syncError, hasInitialized, isApplyingSnapshot, microtask,
                   sync, row>>

\* the button "Show another exercise", disabled when no id remains
showAnother ==
    /\ UNCHANGED aside
    /\ ClientIdle /\ hasInitialized /\ ops < MaxOps
    /\ Len(mindfulnessState.remainingIds) > 0
    /\ mindfulnessState' = advance(mindfulnessState)
    /\ commit' = "user"
    /\ ops' = ops + 1
    /\ UNCHANGED <<now, todayData, todayStore, walkReminders, metricsHistory, syncMeta,
                   syncStatus, syncError, hasInitialized, isApplyingSnapshot, microtask,
                   sync, row>>

\* syncWithServer() up to its first await: the call closes over the current render
StartedSync ==
    [pc |-> "get", path |-> "none", cl |-> Closure, req |-> <<>>, resp |-> <<>>, ans |-> <<>>]

\* No call is running and the render that followed the last one is over: the
\* callbacks of the coming render close over the values it renders.
EndedSync(meta, ms) ==
    [pc |-> "idle", path |-> "none",
     cl |-> [updatedAt |-> meta.updatedAt, todayData |-> todayData,
             walkReminders |-> walkReminders, mindfulnessState |-> ms,
             metricsHistory |-> metricsHistory],
     req |-> <<>>, resp |-> <<>>, ans |-> <<>>]

\* a sync button that stays enabled while syncing
handleSyncNow_Unguarded ==
    /\ UNCHANGED aside
    /\ ClientIdle /\ hasInitialized
    /\ ops < MaxOps
    /\ syncStatus' = "syncing"
    /\ syncError' = ""
    /\ sync' = StartedSync
    /\ commit' = "sync"
    /\ ops' = ops + 1
    /\ UNCHANGED <<now, todayData, todayStore, walkReminders, metricsHistory,
                   mindfulnessState, syncMeta, hasInitialized, isApplyingSnapshot,
                   microtask, row>>

\* the sync button, disabled while syncing
handleSyncNow ==
    /\ UNCHANGED aside
    /\ ClientIdle /\ hasInitialized
    /\ syncStatus # "syncing"
    /\ ops < MaxOps
    /\ syncStatus' = "syncing"
    /\ syncError' = ""
    /\ sync' = StartedSync
    /\ commit' = "sync"
    /\ ops' = ops + 1
    /\ UNCHANGED <<now, todayData, todayStore, walkReminders, metricsHistory,
                   mindfulnessState, syncMeta, hasInitialized, isApplyingSnapshot,
                   microtask, row>>

\* The passive effects of a render: the mindfulness regeneration, the mount sync
\* (first render only) and the touch-on-change effect.  They may run before or
\* after a pending microtask.
RunEffects ==
    /\ UNCHANGED aside
    /\ commit # "none"
    /\ LET regenerate == NeedsRegeneration(mindfulnessState, now)
           pool == getMindfulnessPool(Exercises, getMindfulnessSlot(now))
           touched == IF commit \in Dirty /\ ~isApplyingSnapshot
                      THEN touchSnapshot(syncMeta, now) ELSE syncMeta
       IN /\ \E r \in IF regenerate THEN RandomDraws(Len(pool)) ELSE {<<>>} :
               mindfulnessState' = IF regenerate THEN Regenerated(now, r)
                                   ELSE mindfulnessState
          /\ IF ~hasInitialized
             THEN /\ syncStatus' = "syncing"
                  /\ syncError' = ""
                  /\ sync' = StartedSync
                  /\ hasInitialized' = TRUE
                  /\ syncMeta' = syncMeta
             ELSE /\ syncMeta' = touched
                  /\ sync' = IF sync.pc = "idle"
                             THEN EndedSync(touched, mindfulnessState') ELSE sync
                  /\ UNCHANGED <<syncStatus, syncError, hasInitialized>>
          /\ commit' = IF regenerate THEN "regen" ELSE "none"
    /\ UNCHANGED <<now, todayData, todayStore, walkReminders, metricsHistory,
                   isApplyingSnapshot, microtask, row, ops>>

\* queueMicrotask(() => { isApplyingSnapshot.current = false })
Microtask ==
    /\ UNCHANGED aside
    /\ microtask
    /\ isApplyingSnapshot' = FALSE
    /\ microtask' = FALSE
    /\ UNCHANGED <<now, todayData, todayStore, walkReminders, metricsHistory, mindfulnessState,
                   syncMeta, syncStatus, syncError, hasInitialized, commit, sync, row, ops>>

\* ---------------------------------------------------------------- service
\* app.get('/api/snapshot')
getSnapshot(r) ==
    IF r = <<>> THEN [status |-> 200, updatedAt |-> 0, data |-> <<>>]
    ELSE [status |-> 200, updatedAt |-> r[1].updated_at, data |-> JsonParse(r[1].payload)]

\* an upsert that keeps a row with a later stamp
upsertSnapshot_KeepsNewer(r, payload, stamp) ==
    IF r # <<>> /\ r[1].updated_at > stamp THEN r
    ELSE <<[payload |-> payload, updated_at |-> stamp]>>

\* upsertSnapshot.run(payload, stamp): the single row, replaced wholesale
upsertSnapshot(r, payload, stamp) == <<[payload |-> payload, updated_at |-> stamp]>>

\* a POST that stores the stamp of the body as it comes
postSnapshotRow_StoresGivenStamp(r, body, t) ==
    IF body.data = <<>> THEN r
    ELSE upsertSnapshot(r, JsonStringify(body.data[1]), body.updatedAt)

\* app.post('/api/snapshot'): the row it leaves
postSnapshotRow(r, body, t) ==
    IF body.data = <<>> THEN r
    ELSE upsertSnapshot(r, JsonStringify(body.data[1]),
                        IF body.updatedAt # 0 THEN body.updatedAt ELSE t)

\* app.post('/api/snapshot'): its answer
postSnapshotAnswer(body, t) ==
    IF body.data = <<>> THEN [status |-> 400, updatedAt |-> 0, data |-> <<>>]
    ELSE [status |-> 200, updatedAt |-> IF body.updatedAt # 0 THEN body.updatedAt ELSE t,
          data |-> <<>>]

\* ---------------------------------------------------------------- network
\* A proxy in front of the service may answer instead of it, with a non-2xx status.
GatewayAnswer(st) == [status |-> st, updatedAt |-> 0, data |-> <<>>]

\* the answers fetch('/api/snapshot') can resolve to
GetAnswers(r) == {getSnapshot(r)} \cup {GatewayAnswer(st) : st \in {404, 500}}

\* response.ok
Ok(response) == response.status \in 200..299

\* ---------------------------------------------------------------- syncWithServer
\* a catch block that records the attempt in lastSyncedAt
catchError_Stamps(message) ==
    /\ syncStatus' = "error"
    /\ syncError' = message
    /\ commit' = "fail"
    /\ syncMeta' = [syncMeta EXCEPT !.lastSyncedAt = now]
    /\ UNCHANGED <<now, todayData, todayStore, walkReminders, metricsHistory, mindfulnessState,
                   hasInitialized, isApplyingSnapshot, microtask, ops>>

\* a catch block that records the message and leaves the status
catchError_KeepsStatus(message) ==
    /\ syncStatus' = syncStatus
    /\ syncError' = message
    /\ commit' = "fail"
    /\ UNCHANGED <<now, todayData, todayStore, walkReminders, metricsHistory, mindfulnessState,
                   syncMeta, hasInitialized, isApplyingSnapshot, microtask, ops>>

\* the catch block of syncWithServer
catchError(message) ==
    /\ syncStatus' = "error"
    /\ syncError' = message
    /\ commit' = "fail"
    /\ UNCHANGED <<now, todayData, todayStore, walkReminders, metricsHistory, mindfulnessState,
                   syncMeta, hasInitialized, isApplyingSnapshot, microtask, ops>>

\* fetch() rejects: the request is lost, or the answer is (the service has then
\* handled the request)
FetchThrows ==
    /\ UNCHANGED aside
    /\ ClientIdle
    /\ \/ /\ sync.pc = "get"
          /\ row' = row
       \/ /\ sync.pc = "post"
          /\ row' \in {row, postSnapshotRow(row, sync.req[1], now)}
    /\ sync' = [sync EXCEPT !.pc = "idle"]
    /\ catchError("Failed to fetch")

\* applySnapshot without the assignment of updatedAt
applySnapshot_KeepsStamp(snapshot, updatedAt) ==
    /\ isApplyingSnapshot' = TRUE
    /\ IF snapshot.today.date = getToday(now)
       THEN /\ todayData' = snapshot.today.data
            /\ todayStore' = setTodayData(snapshot.today.data, now)
       ELSE UNCHANGED <<todayData, todayStore>>
    /\ walkReminders' = snapshot.reminders
    /\ metricsHistory' = snapshot.metricsHistory
    /\ mindfulnessState' = snapshot.mindfulness
    /\ syncMeta' = [syncMeta EXCEPT !.lastSyncedAt = now]
    /\ microtask' = TRUE

\* applySnapshot without the test of the date of the remote today record
applySnapshot_AnyDay(snapshot, updatedAt) ==
    /\ isApplyingSnapshot' = TRUE
    /\ todayData' = snapshot.today.data
    /\ todayStore' = setTodayData(snapshot.today.data, now)
    /\ walkReminders' = snapshot.reminders
    /\ metricsHistory' = snapshot.metricsHistory
    /\ mindfulnessState' = snapshot.mindfulness
    /\ syncMeta' = [syncMeta EXCEPT !.updatedAt = updatedAt, !.lastSyncedAt = now]
    /\ microtask' = TRUE

\* an apply that records the stamp of the remote as the time of the sync
applySnapshot_SyncedAtStamp(snapshot, updatedAt) ==
    /\ isApplyingSnapshot' = TRUE
    /\ IF snapshot.today.date = getToday(now)
       THEN /\ todayData' = snapshot.today.data
            /\ todayStore' = setTodayData(snapshot.today.data, now)
       ELSE UNCHANGED <<todayData, todayStore>>
    /\ walkReminders' = snapshot.reminders
    /\ metricsHistory' = snapshot.metricsHistory
    /\ mindfulnessState' = snapshot.mindfulness
    /\ syncMeta' = [syncMeta EXCEPT !.updatedAt = updatedAt, !.lastSyncedAt = updatedAt]
    /\ microtask' = TRUE

\* applySnapshot(snapshot, updatedAt); a snapshot written by this client holds
\* every field, so the tests for a missing field pass
applySnapshot(snapshot, updatedAt) ==
    /\ isApplyingSnapshot' = TRUE
    /\ IF snapshot.today.date = getToday(now)
       THEN /\ todayData' = snapshot.today.data
            /\ todayStore' = setTodayData(snapshot.today.data, now)
       ELSE UNCHANGED <<todayData, todayStore>>
    /\ walkReminders' = snapshot.reminders
    /\ metricsHistory' = snapshot.metricsHistory
    /\ mindfulnessState' = snapshot.mindfulness
    /\ syncMeta' = [syncMeta EXCEPT !.updatedAt = updatedAt, !.lastSyncedAt = now]
    /\ microtask' = TRUE

\* pushSnapshot stamping every body with the clock
pushBody_FreshStamp(c, store, t) ==
    [updatedAt |-> t, data |-> <<buildSnapshot(c, store, t)>>]

\* pushSnapshot() up to its await: the body of the POST
pushBody(c, store, t) ==
    [updatedAt |-> IF c.updatedAt # 0 THEN c.updatedAt ELSE t,
     data |-> <<buildSnapshot(c, store, t)>>]

\* syncWithServer applying a remote snapshot that is not older
syncDecision_NotOlder(response, localUpdatedAt) ==
    IF ~Ok(response)
    THEN IF response.status = 404 THEN "push" ELSE "throw"
    ELSE IF response.data = <<>> THEN "push"
    ELSE IF localUpdatedAt = 0 /\ response.updatedAt # 0 THEN "apply"
    ELSE IF response.updatedAt = 0
            \/ (localUpdatedAt = 0 \/ response.updatedAt >= localUpdatedAt)
         THEN "apply"
         ELSE "push"

\* syncWithServer failing on an answer without data
syncDecision_NullIsError(response, localUpdatedAt) ==
    IF ~Ok(response)
    THEN IF response.status = 404 THEN "push" ELSE "throw"
    ELSE IF response.data = <<>> THEN "throw"
    ELSE IF localUpdatedAt = 0 /\ response.updatedAt # 0 THEN "apply"
    ELSE IF response.updatedAt = 0
            \/ (localUpdatedAt = 0 \/ response.updatedAt > localUpdatedAt)
         THEN "apply"
         ELSE "push"

\* the branch syncWithServer takes on the answer of the GET
syncDecision(response, localUpdatedAt) ==
    IF ~Ok(response)
    THEN IF response.status = 404 THEN "push" ELSE "throw"
    ELSE IF response.data = <<>> THEN "push"
    ELSE IF localUpdatedAt = 0 /\ response.updatedAt # 0 THEN "apply"
    ELSE IF response.updatedAt = 0
            \/ (localUpdatedAt = 0 \/ response.updatedAt > localUpdatedAt)
         THEN "apply"
         ELSE "push"

\* syncWithServer() from the answer of the GET to its next await or its end
GetAnswered ==
    /\ UNCHANGED aside
    /\ ClientIdle
    /\ sync.pc = "get"
    /\ \E response \in GetAnswers(row) :
        LET serverUpdatedAt == response.updatedAt
            branch == syncDecision(response, sync.cl.updatedAt)
        IN CASE branch = "throw" ->
                   /\ sync' = [sync EXCEPT !.pc = "idle", !.resp = <<response>>]
                   /\ catchError("Snapshot fetch failed")
             [] branch = "push" ->
                   /\ sync' = [sync EXCEPT !.pc = "post", !.path = "push",
                                           !.resp = <<response>>,
                                           !.req = <<pushBody(sync.cl, todayStore, now)>>]
                   /\ UNCHANGED <<now, todayData, todayStore, walkReminders,
                                  metricsHistory, mindfulnessState, syncMeta, syncStatus,
                                  syncError, hasInitialized, isApplyingSnapshot,
                                  microtask, commit, ops>>
             [] branch = "apply" ->
                   /\ applySnapshot(response.data[1],
                          IF serverUpdatedAt # 0 THEN serverUpdatedAt ELSE now)
                   /\ syncStatus' = "success"
                   /\ sync' = [sync EXCEPT !.pc = "idle", !.path = "apply",
                                           !.resp = <<response>>]
                   /\ commit' = "apply"
                   /\ UNCHANGED <<now, syncError, hasInitialized, ops>>
    /\ row' = row

\* The POST is answered, by the service or by the proxy; then pushSnapshot()
\* after its await, and the end of syncWithServer.
PostAnswered ==
    /\ UNCHANGED aside
    /\ ClientIdle
    /\ sync.pc = "post"
    /\ \/ /\ row' = postSnapshotRow(row, sync.req[1], now)
          /\ sync' = [sync EXCEPT !.pc = "idle",
                                  !.ans = <<postSnapshotAnswer(sync.req[1], now)>>]
       \/ /\ row' = row
          /\ sync' = [sync EXCEPT !.pc = "idle", !.ans = <<GatewayAnswer(502)>>]
    /\ syncMeta' = [syncMeta EXCEPT !.updatedAt = sync.req[1].updatedAt,
                                     !.lastSyncedAt = now]
    /\ syncStatus' = "success"
    /\ commit' = "push"
    /\ UNCHANGED <<now, todayData, todayStore, walkReminders, metricsHistory, mindfulnessState,
                   syncError, hasInitialized, isApplyingSnapshot, microtask, ops>>

Next ==
    \/ Tick
    \/ addHydration
    \/ toggleWalkReminder
    \/ showAnother
    \/ handleSyncNow
    \/ RunEffects
    \/ Microtask
    \/ FetchThrows
    \/ GetAnswered
    \/ PostAnswered

Spec == Init /\ [][Next]_vars

\* ---------------------------------------------------------------- properties
\* the values the component persists
LocalData == <<todayData, todayStore, walkReminders, metricsHistory, mindfulnessState>>
Persisted == <<LocalData, syncMeta>>

\* the snapshot of the local state as it is now
LocalSnapshot == buildSnapshot(Closure, todayStore, now)

\* the step in which the GET of the running sync is answered
GetStep == sync.pc = "get" /\ sync'.resp # <<>>
\* the step in which the POST of the running sync is answered
PostStep == sync.pc = "post" /\ sync'.ans # <<>>
\* the step in which a fetch of the running sync rejects
ThrowStep ==
    sync.pc \in {"get", "post"} /\ sync'.pc = "idle"
    /\ sync'.resp = sync.resp /\ sync'.ans = sync.ans

\* the answer of a GET carries a snapshot
HasData(response) == Ok(response) /\ response.data # <<>>
\* the answer of a GET says there is no remote snapshot
NoRemote(response) == response.status = 404 \/ (Ok(response) /\ response.data = <<>>)

\* the step ends the sync by making the local state the snapshot `remote`, today's
\* record included only when it is dated today, under the stamp `stamp`
Applied(remote, stamp) ==
    /\ sync'.pc = "idle" /\ sync'.path = "apply"
    /\ syncStatus' = "success"
    /\ walkReminders' = remote.reminders
    /\ mindfulnessState' = remote.mindfulness
    /\ metricsHistory' = remote.metricsHistory
    /\ syncMeta'.updatedAt = stamp
    /\ IF remote.today.date = getToday(now)
       THEN todayData' = remote.today.data /\ todayStore' = <<remote.today>>
       ELSE UNCHANGED <<todayData, todayStore>>

\* the step issues the POST of the snapshot the sync closed over and applies nothing
Pushed ==
    /\ sync'.pc = "post" /\ sync'.path = "push"
    /\ sync'.req = <<pushBody(sync.cl, todayStore, now)>>
    /\ UNCHANGED Persisted

\* C1, as stated: a first-run sync (empty local updatedAt, remote snapshot with a
\* non-empty updatedAt) ends with the local snapshot, today record included, equal
\* to the remote snapshot and the local updatedAt equal to the remote one.
C1_FirstRunEqualsRemote ==
    [][ (GetStep /\ syncMeta.updatedAt = 0 /\ sync.cl.updatedAt = 0
            /\ HasData(sync'.resp[1]) /\ sync'.resp[1].updatedAt # 0)
        => (/\ LocalSnapshot' = sync'.resp[1].data[1]
            /\ syncMeta'.updatedAt = sync'.resp[1].updatedAt) ]_vars

\* C1, amended: a first-run sync ends in success with the local reminder toggles,
\* mindfulness state and metrics history equal to the remote's and the local
\* updatedAt equal to the remote one; the today record becomes the remote's only
\* when the remote today.date is the client's current date, else it is unchanged.
C1_FirstRunApplies ==
    [][ (GetStep /\ sync.cl.updatedAt = 0
            /\ HasData(sync'.resp[1]) /\ sync'.resp[1].updatedAt # 0)
        => Applied(sync'.resp[1].data[1], sync'.resp[1].updatedAt) ]_vars

C1_Witness ==
    /\ commit = "apply" /\ sync.cl.updatedAt = 0
    /\ sync.resp[1].updatedAt # 0
    /\ syncMeta.updatedAt = sync.resp[1].updatedAt
    /\ walkReminders = sync.resp[1].data[1].reminders
    /\ sync.resp[1].data[1].today.date # getToday(now)
    /\ LocalSnapshot.today # sync.resp[1].data[1].today

\* C2: when the local updatedAt is strictly newer than the (non-empty) remote one,
\* the sync issues a POST of the local snapshot and applies nothing; once the
\* service has answered the POST, the row holds the pushed snapshot and its
\* updated_at is the local updatedAt.
C2_NewerLocalIsPushed ==
    [][ /\ (GetStep /\ Ok(sync'.resp[1]) /\ sync'.resp[1].updatedAt # 0
               /\ sync.cl.updatedAt > sync'.resp[1].updatedAt)
           => Pushed
        /\ (PostStep /\ Ok(sync'.ans[1]) /\ Ok(sync.resp[1])
               /\ sync.resp[1].updatedAt # 0
               /\ sync.cl.updatedAt > sync.resp[1].updatedAt)
           => (/\ row' = <<[payload |-> JsonStringify(sync.req[1].data[1]),
                            updated_at |-> sync.cl.updatedAt]>>
               /\ syncMeta'.updatedAt = sync.cl.updatedAt
               /\ UNCHANGED LocalData) ]_vars

C2_Witness ==
    /\ commit = "push" /\ Ok(sync.ans[1])
    /\ HasData(sync.resp[1]) /\ sync.resp[1].updatedAt # 0
    /\ sync.cl.updatedAt > sync.resp[1].updatedAt
    /\ row = <<[payload |-> JsonStringify(sync.req[1].data[1]),
                updated_at |-> sync.cl.updatedAt]>>
    /\ JsonParse(row[1].payload) # <<sync.resp[1].data[1]>>

\* C3: when the remote updatedAt is strictly greater than a non-empty local one,
\* the sync replaces the local reminder toggles, mindfulness state and metrics
\* history by the remote's and sets the local updatedAt to the remote one; the
\* today record is replaced only when the remote today.date is the client's
\* current date and is unchanged otherwise.
C3_NewerRemoteReplaces ==
    [][ (GetStep /\ HasData(sync'.resp[1]) /\ sync.cl.updatedAt # 0
            /\ sync'.resp[1].updatedAt > sync.cl.updatedAt)
        => Applied(sync'.resp[1].data[1], sync'.resp[1].updatedAt) ]_vars

C3_Witness ==
    /\ commit = "apply" /\ sync.cl.updatedAt # 0
    /\ sync.resp[1].updatedAt > sync.cl.updatedAt
    /\ syncMeta.updatedAt = sync.resp[1].updatedAt
    /\ sync.resp[1].data[1].today.date = getToday(now)
    /\ LocalSnapshot = sync.resp[1].data[1]

\* C4, as stated: with no remote snapshot and an empty local updatedAt, once the
\* service has answered the POST the sync is in success, the row equals the local
\* snapshot, lastSyncedAt is non-empty and the local updatedAt is the row's
\* updated_at.  (Taken with no user action at all since the launch.)
C4_FirstPushStoresLocalSnapshot ==
    [][ (PostStep /\ Ok(sync'.ans[1]) /\ sync.cl.updatedAt = 0
            /\ NoRemote(sync.resp[1]) /\ ops = 0)
        => (/\ syncStatus' = "success"
            /\ row' # <<>>
            /\ JsonParse(row'[1].payload) = <<LocalSnapshot'>>
            /\ syncMeta'.lastSyncedAt # 0
            /\ syncMeta'.updatedAt = row'[1].updated_at) ]_vars

\* C5: when a fetch of a sync rejects, or its GET is answered with a status that
\* is neither 2xx nor 404, the status becomes error with a non-empty message and
\* every persisted value is left as it is; the steps of the sync before the
\* failure (its start from the button, the issue of its POST) leave every
\* persisted value as it is too.
C5_FailureLeavesLocalState ==
    [][ /\ (ThrowStep
              \/ (GetStep /\ ~Ok(sync'.resp[1]) /\ sync'.resp[1].status # 404))
           => (/\ syncStatus' = "error"
               /\ syncError' # ""
               /\ sync'.pc = "idle"
               /\ UNCHANGED Persisted)
        /\ (sync.pc # sync'.pc /\ (sync'.pc = "post" \/ (hasInitialized /\ sync'.pc = "get")))
           => UNCHANGED Persisted ]_vars

C5_Witness ==
    /\ commit = "fail" /\ syncStatus = "error" /\ syncError # ""
    /\ sync.path = "push" /\ sync.req # <<>> /\ sync.ans = <<>>
    /\ syncMeta.updatedAt # 0

\* C6, as stated: no step decreases the local updatedAt.
C6_UpdatedAtNeverDecreases ==
    [][ syncMeta'.updatedAt >= syncMeta.updatedAt ]_vars

\* C7, as stated: the effects of the render that follows an applied remote
\* snapshot leave the local updatedAt equal to the stamp that was applied.
C7_ApplyDoesNotTouch ==
    [][ (commit = "apply" /\ commit' # "apply")
        => syncMeta'.updatedAt = syncMeta.updatedAt ]_vars

C9_RejectedPushIsError ==
    [][ (PostStep /\ ~Ok(sync'.ans[1]))
        => (syncStatus' = "error" /\ syncMeta' = syncMeta) ]_vars

\* C10: for a row whose payload does not parse, the service answers the GET with
\* no data; the client then issues a POST of the local snapshot and applies
\* nothing, and the answer of the POST ends the sync in success with the local
\* data unchanged.
C10_UnparsablePayloadIsPushedOver ==
    [][ /\ (GetStep /\ row # <<>> /\ JsonParse(row[1].payload) = <<>>
               /\ Ok(sync'.resp[1]))
           => (sync'.resp[1].data = <<>> /\ Pushed)
        /\ (PostStep /\ Ok(sync.resp[1]) /\ sync.resp[1].data = <<>>
               /\ sync.resp[1].updatedAt # 0)
           => (/\ syncStatus' = "success" /\ sync'.pc = "idle"
               /\ UNCHANGED LocalData) ]_vars

C10_Witness ==
    /\ commit = "push" /\ syncStatus = "success"
    /\ Ok(sync.resp[1]) /\ sync.resp[1].data = <<>> /\ sync.resp[1].updatedAt # 0
    /\ Ok(sync.ans[1])
    /\ row = <<[payload |-> JsonStringify(sync.req[1].data[1]),
                updated_at |-> sync.req[1].updatedAt]>>

\* C12, as stated: hydration is between 0 and 60 in every state and no step
\* decreases it while the calendar date stays the same.
C12_HydrationNeverDecreases ==
    /\ [](todayData.hydration \in 0..HydrationMax)
    /\ [][ getToday(now') = getToday(now)
           => todayData'.hydration >= todayData.hydration ]_vars

\* C12, amended: hydration is between 0 and 60 in every state; a step that is not
\* the application of a remote snapshot either leaves it or raises it to
\* min(hydration + 8, 60), so that at 60 it stays at 60; the application of a
\* remote snapshot dated today replaces it by the remote value.
C12_HydrationIsCapped ==
    /\ [](todayData.hydration \in 0..HydrationMax)
    /\ [][ IF sync.pc = "get" /\ sync'.path = "apply"
           THEN LET remote == sync'.resp[1].data[1].today
                IN todayData'.hydration =
                      IF remote.date = getToday(now) THEN remote.data.hydration
                      ELSE todayData.hydration
           ELSE \/ todayData'.hydration = todayData.hydration
                \/ /\ todayData'.hydration =
                         IF todayData.hydration + 8 > 60 THEN 60
                         ELSE todayData.hydration + 8
                   /\ todayStore' = <<[date |-> getToday(now), data |-> todayData']>>
         ]_vars

\* an increment made at 60 (the record was rewritten under the new date)
C12_Witness ==
    /\ todayData.hydration = HydrationMax
    /\ todayStore # <<>>
    /\ todayStore[1].date = getToday(InitNow) + 1
    /\ todayStore[1].data.hydration = HydrationMax

\* ================================================================ functions on their own
\* The pure functions of the component, each applied once to arguments drawn
\* from bounded sets: call holds the arguments, result what was returned.

\* the last calendar date of the arguments
MaxDay == 3

\* the client and the service with nothing stored and nothing running
ClientAtRest ==
    /\ now = InitNow
    /\ todayStore = <<>>
    /\ todayData = defaultTodayData
    /\ walkReminders = DefaultReminders
    /\ metricsHistory = <<>>
    /\ mindfulnessState = [date |-> getToday(InitNow), slot |-> getMindfulnessSlot(InitNow),
                           remainingIds |-> <<>>, currentId |-> 0]
    /\ syncMeta = [updatedAt |-> 0, lastSyncedAt |-> 0]
    /\ syncStatus = "idle"
    /\ syncError = ""
    /\ hasInitialized = FALSE
    /\ isApplyingSnapshot = FALSE
    /\ microtask = FALSE
    /\ commit = "mount"
    /\ sync = [pc |-> "idle", path |-> "none", cl |-> Closure,
               req |-> <<>>, resp |-> <<>>, ans |-> <<>>]
    /\ ops = 0
    /\ metrics = EmptyForm

ServiceAtRest ==
    /\ row = <<>>
    /\ metricsTable = <<>>
    /\ reminders = <<>>

clientVars ==
    <<now, todayData, todayStore, walkReminders, metricsHistory, mindfulnessState,
      syncMeta, syncStatus, syncError, hasInitialized, isApplyingSnapshot, microtask,
      commit, sync, ops, metrics>>

serviceVars == <<row, metricsTable, reminders>>

\* the daily records localStorage may hold
DailyRecords ==
    { [date |-> d, data |-> [hydration |-> h, meditationCount |-> m]] :
        d \in 0..MaxDay, h \in {0, HydrationStep, HydrationMax}, m \in {0, 1} }

\* localStorage.getItem('healthsaga-today'): nothing, a text that is not JSON, or
\* what setTodayData wrote
StoredTodayTexts ==
    {<<>>, <<CorruptText>>} \cup { <<JsonStringify(rec)>> : rec \in DailyRecords }

\* the stored record as loadTodayData reads it: <<>> when the item is missing or
\* JSON.parse throws
parseStoredToday(raw) == IF raw = <<>> THEN <<>> ELSE JsonParse(raw[1])

LoadCalls ==
    [fn : {"loadTodayData"}, stored : StoredTodayTexts,
     clock : 0..((MaxDay + 1) * DayLen - 1)]

evalLoadTodayData ==
    /\ result = <<>>
    /\ call.fn = "loadTodayData"
    /\ result' = <<loadTodayData(parseStoredToday(call.stored), call.clock)>>
    /\ UNCHANGED <<clientVars, serviceVars, call>>

\* ---------------------------------------------------------------- getTrendStats
\* the entries of the histories evaluated
MaxHistory == 2

\* the clock of the evaluations: day 40, so that a month ago is a day of the clock
TrendNow == 40 * DayLen

\* the ranges of the trend view
TrendRanges == {"week", "month", "all"}

\* startDate: setDate(now.getDate() - 7), setDate(now.getDate() - 30), new Date(0)
startDate(range, t) ==
    CASE range = "week" -> t - 7 * DayLen
      [] range = "month" -> t - 30 * DayLen
      [] OTHER -> 0

\* Number(val) on the texts the histories hold
Number(val) ==
    CASE val = "60" -> 60
      [] val = "72" -> 72
      [] val = "80" -> 80
      [] val = "120" -> 120

RECURSIVE inWindow(_, _, _)
\* metricsHistory.filter(entry => new Date(entry.recordedAt) >= startDate)
inWindow(history, start, i) ==
    IF i > Len(history) THEN <<>>
    ELSE (IF history[i].recordedAt >= start THEN <<history[i]>> ELSE <<>>)
         \o inWindow(history, start, i + 1)

RECURSIVE valuesOf(_, _, _)
\* .map(val ? Number(val) : null).filter(v => v !== null)
valuesOf(filtered, metric, i) ==
    IF i > Len(filtered) THEN <<>>
    ELSE (IF filtered[i][metric] # "" THEN <<Number(filtered[i][metric])>> ELSE <<>>)
         \o valuesOf(filtered, metric, i + 1)

\* the elements of an array
Range(values) == { values[i] : i \in DOMAIN values }

RECURSIVE Sum(_, _)
\* values.reduce((a, b) => a + b, 0)
Sum(values, i) == IF i > Len(values) THEN 0 ELSE values[i] + Sum(values, i + 1)

\* Math.round(x * 10) / 10 of the mean, in tenths
roundedAvg(values) == (20 * Sum(values, 1) + Len(values)) \div (2 * Len(values))

\* the answer without data
NoData ==
    [latest |-> "--", avg |-> "--", trend |-> "flat", count |-> 0, min |-> "--", max |-> "--"]

\* an answer without data that counts the entries of the window
getTrendStats_CountsEntries(history, metric, range, t) ==
    [NoData EXCEPT !.count = Len(inWindow(history, startDate(range, t), 1))]

\* statistics that take the last value of the window for the latest
getTrendStats_LatestIsOldest(history, metric, range, t) ==
    LET filtered == inWindow(history, startDate(range, t), 1)
        values == valuesOf(filtered, metric, 1)
        latest == values[Len(values)]
        oldest == values[1]
    IN IF Len(filtered) = 0 THEN NoData
       ELSE IF Len(values) = 0 THEN NoData
       ELSE [latest |-> latest,
             avg |-> roundedAvg(values),
             trend |-> IF latest > oldest THEN "up"
                       ELSE IF latest < oldest THEN "down" ELSE "flat",
             count |-> Len(values),
             min |-> CHOOSE v \in Range(values) : \A w \in Range(values) : v <= w,
             max |-> CHOOSE v \in Range(values) : \A w \in Range(values) : v >= w]

\* getTrendStats(metric), of the history and range of the render, at time t
getTrendStats(history, metric, range, t) ==
    LET filtered == inWindow(history, startDate(range, t), 1)
        values == valuesOf(filtered, metric, 1)
        latest == values[1]
        oldest == values[Len(values)]
    IN IF Len(filtered) = 0 THEN NoData
       ELSE IF Len(values) = 0 THEN NoData
       ELSE [latest |-> latest,
             avg |-> roundedAvg(values),
             trend |-> IF latest > oldest THEN "up"
                       ELSE IF latest < oldest THEN "down" ELSE "flat",
             count |-> Len(values),
             min |-> CHOOSE v \in Range(values) : \A w \in Range(values) : v <= w,
             max |-> CHOOSE v \in Range(values) : \A w \in Range(values) : v >= w]

\* the entries a history may hold: saved today, a week ago to the tick, the tick
\* before, and more than a month ago; with a heart rate, a blood pressure or both
TrendEntries ==
    { [StoredEntry(at) EXCEPT !.heartRate = readings[1], !.systolic = readings[2]] :
        at \in {TrendNow, TrendNow - 7 * DayLen, TrendNow - 7 * DayLen - 1,
                TrendNow - 31 * DayLen},
        readings \in ({"", "60", "72"} \X {"", "120"}) \ {<<"", "">>} }

\* the histories handleSaveMetrics builds: newest first
TrendHistories ==
    UNION { { h \in [1..n -> TrendEntries] :
                \A i \in 1..(n - 1) : h[i].recordedAt >= h[i + 1].recordedAt } :
            n \in 0..MaxHistory }

TrendCalls ==
    [fn : {"getTrendStats"}, history : TrendHistories,
     metric : {"heartRate", "systolic", "weight"}, range : TrendRanges, clock : {TrendNow}]

evalGetTrendStats ==
    /\ result = <<>>
    /\ call.fn = "getTrendStats"
    /\ result' = <<getTrendStats(call.history, call.metric, call.range, call.clock)>>
    /\ UNCHANGED <<clientVars, serviceVars, call>>

\* ---------------------------------------------------------------- mindfulness queue
\* a library of four exercises, the fourth for both slots
Library ==
    Exercises \o << [id |-> 4, timeOfDay |-> {"morning", "evening"}] >>

RECURSIVE Among(_, _, _)
\* the exercises of a library at the given indices, in their order
Among(library, indices, i) ==
    IF i > Len(library) THEN <<>>
    ELSE (IF i \in indices THEN <<library[i]>> ELSE <<>>) \o Among(library, indices, i + 1)

\* the pools of the non-empty libraries, for a morning and an evening clock
Pools ==
    { getMindfulnessPool(Among(Library, indices, 1), getMindfulnessSlot(t)) :
        indices \in (SUBSET (1..Len(Library))) \ {{}}, t \in {InitNow - 1, InitNow} }

\* getMindfulnessPool on every sub-list of the library, the empty one included
PoolCalls ==
    [fn : {"getMindfulnessPool"},
     exercises : { Among(Library, indices, 1) : indices \in SUBSET (1..Len(Library)) },
     slot : {"morning", "evening"}]

evalGetMindfulnessPool ==
    /\ result = <<>>
    /\ call.fn = "getMindfulnessPool"
    /\ result' = <<getMindfulnessPool(call.exercises, call.slot)>>
    /\ UNCHANGED <<clientVars, serviceVars, call>>

RegenerateCalls ==
    UNION { [fn : {"regenerate"}, pool : {pool}, clock : {InitNow - 1, InitNow},
             draws : RandomDraws(Len(pool))] : pool \in Pools }

\* the states a queue goes through: its k-th id shown, the later ones remaining
AdvanceCalls ==
    UNION { { [fn |-> "advance",
               state |-> [date |-> getToday(c.clock), slot |-> getMindfulnessSlot(c.clock),
                          remainingIds |-> SubSeq(queue, k + 1, Len(queue)),
                          currentId |-> queue[k]]] :
              queue \in {buildMindfulnessQueue(c.pool, c.draws)}, k \in 1..Len(c.pool) } :
            c \in RegenerateCalls }

evalRegenerate ==
    /\ result = <<>>
    /\ call.fn = "regenerate"
    /\ result' = <<regenerateFor(call.pool, call.clock, call.draws)>>
    /\ UNCHANGED <<clientVars, serviceVars, call>>

evalAdvance ==
    /\ result = <<>>
    /\ call.fn = "advance"
    /\ result' = <<advance(call.state)>>
    /\ UNCHANGED <<clientVars, serviceVars, call>>

InitEval ==
    /\ ClientAtRest
    /\ ServiceAtRest
    /\ call \in LoadCalls \cup TrendCalls \cup PoolCalls \cup RegenerateCalls \cup AdvanceCalls
    /\ result = <<>>

NextEval ==
    \/ evalLoadTodayData
    \/ evalGetTrendStats
    \/ evalGetMindfulnessPool
    \/ evalRegenerate
    \/ evalAdvance

SpecEval == InitEval /\ [][NextEval]_vars

\* C11: loadTodayData returns the stored data only when the stored text parses and
\* its date is today's; for a missing, unparsable or differently dated record it
\* returns the default record (hydration 0, meditationCount 0).
C11_LoadIsScopedToToday ==
    (result # <<>> /\ call.fn = "loadTodayData")
    => IF /\ call.stored # <<>>
          /\ call.stored[1] # CorruptText
          /\ call.stored[1].value[1].date = call.clock \div DayLen
       THEN result[1] = call.stored[1].value[1].data
       ELSE result[1] = [hydration |-> 0, meditationCount |-> 0]

C11_Witness ==
    /\ result # <<>> /\ call.fn = "loadTodayData"
    /\ call.stored # <<>> /\ call.stored[1] # CorruptText
    /\ call.stored[1].value[1].date = call.clock \div DayLen - 1
    /\ call.stored[1].value[1].data.hydration = HydrationMax
    /\ result[1].hydration = 0

\* ================================================================ the tabs, offline
\* The handlers of the tabs of a session whose mount sync has failed: the
\* meditation check-ins and the metrics form, with the effects of their renders.

\* the check-ins one day can take
MaxCount == 3

Max(a, b) == IF a > b THEN a ELSE b

\* what the handlers of the tabs leave to the effects and to the sync
syncCtl ==
    <<syncMeta, syncStatus, syncError, hasInitialized, isApplyingSnapshot, microtask, sync>>

\* the mount sync of the session found no service: its catch block has run
SyncAtRest ==
    /\ syncMeta = [updatedAt |-> 0, lastSyncedAt |-> 0]
    /\ syncStatus = "error"
    /\ syncError = "Failed to fetch"
    /\ hasInitialized = TRUE
    /\ isApplyingSnapshot = FALSE
    /\ microtask = FALSE
    /\ commit = "none"
    /\ sync = [pc |-> "idle", path |-> "none", cl |-> Closure,
               req |-> <<>>, resp |-> <<>>, ans |-> <<>>]
    /\ ops = 0

\* a decrement that goes below zero
decreaseMeditation_Unguarded ==
    /\ ClientIdle
    /\ todayData' = [todayData EXCEPT !.meditationCount = @ - 1]
    /\ todayStore' = setTodayData(todayData', now)
    /\ commit' = "user"
    /\ UNCHANGED <<now, walkReminders, metricsHistory, mindfulnessState, syncCtl, ops,
                   metrics, serviceVars, call, result>>

\* the button "Decrease meditation check-ins" (a record always holds the count, so
\* the `?? 0` of the handler is the count)
decreaseMeditation ==
    /\ ClientIdle
    /\ todayData' = [todayData EXCEPT !.meditationCount = Max(0, @ - 1)]
    /\ todayStore' = setTodayData(todayData', now)
    /\ commit' = "user"
    /\ UNCHANGED <<now, walkReminders, metricsHistory, mindfulnessState, syncCtl, ops,
                   metrics, serviceVars, call, result>>

\* the button "Increase meditation check-ins"
increaseMeditation ==
    /\ ClientIdle
    /\ todayData.meditationCount < MaxCount
    /\ todayData' = [todayData EXCEPT !.meditationCount = @ + 1]
    /\ todayStore' = setTodayData(todayData', now)
    /\ commit' = "user"
    /\ UNCHANGED <<now, walkReminders, metricsHistory, mindfulnessState, syncCtl, ops,
                   metrics, serviceVars, call, result>>

\* ---------------------------------------------------------------- metrics tab
HistoryCap == 50
\* the saves one session makes
MaxSaves == 2

\* what the user may have typed: nothing, blanks, or readings
Forms ==
    { EmptyForm,
      [EmptyForm EXCEPT !.heartRate = " "],
      [EmptyForm EXCEPT !.heartRate = "72"],
      [EmptyForm EXCEPT !.systolic = "120", !.diastolic = "80", !.weight = " "] }

\* String.prototype.trim on the texts of the form
Trim(text) == IF text = " " THEN "" ELSE text

\* the entry handleSaveMetrics builds: `trim() || undefined` for each field, the
\* two fields of bloodPressure side by side
entryOf(form, t) ==
    [recordedAt |-> t,
     systolic |-> Trim(form.systolic), diastolic |-> Trim(form.diastolic),
     heartRate |-> Trim(form.heartRate), weight |-> Trim(form.weight),
     respiratoryRate |-> Trim(form.respiratoryRate)]

hasValues(entry) == \E f \in MetricFields : entry[f] # ""

\* a history that keeps every entry
pushHistory_Uncapped(prev, entry) == <<entry>> \o prev

\* [entry, ...prev].slice(0, 50)
pushHistory(prev, entry) ==
    SubSeq(<<entry>> \o prev, 1, Min(Len(prev) + 1, HistoryCap))

\* an insert that replaces the row of the same recording time
postMetrics_Upserts(table, entry, t) ==
    LET stamp == IF "recordedAt" \in DOMAIN entry THEN entry.recordedAt ELSE t
        added == [recorded_at |-> stamp, systolic |-> entry.systolic,
                  diastolic |-> entry.diastolic, heart_rate |-> entry.heartRate,
                  weight |-> entry.weight, respiratory_rate |-> entry.respiratoryRate]
    IN  IF \E i \in 1..Len(table) : table[i].recorded_at = stamp
        THEN [i \in 1..Len(table) |->
                 IF table[i].recorded_at = stamp THEN added ELSE table[i]]
        ELSE Append(table, added)

\* app.post('/api/metrics'): the table it leaves ("" stands for NULL)
postMetrics(table, entry, t) ==
    Append(table,
           [recorded_at |-> IF "recordedAt" \in DOMAIN entry THEN entry.recordedAt ELSE t,
            systolic |-> entry.systolic,
            diastolic |-> entry.diastolic, heart_rate |-> entry.heartRate,
            weight |-> entry.weight, respiratory_rate |-> entry.respiratoryRate])

\* a history of n entries, newest first, one per tick of the past
PastHistory(n) == [i \in 1..n |-> StoredEntry(n + 1 - i)]

\* the clock of the offline session: later than every stored entry
LocalNow == HistoryCap + InitNow

\* the user types into the form
typeMetrics ==
    /\ ClientIdle
    /\ \E form \in Forms : metrics' = form /\ form # metrics
    /\ UNCHANGED <<now, todayData, todayStore, walkReminders, metricsHistory,
                   mindfulnessState, syncCtl, commit, ops, serviceVars, call, result>>

\* a save whose failed POST is reported as a failed sync
handleSaveMetrics_ReportsFailure ==
    /\ ClientIdle
    /\ ops < MaxSaves
    /\ LET entry == entryOf(metrics, now)
       IN IF hasValues(entry)
          THEN /\ metricsHistory' = pushHistory(metricsHistory, entry)
               /\ \/ /\ metricsTable' = postMetrics(metricsTable, entry, now)
                     /\ UNCHANGED <<syncStatus, syncError>>
                  \/ /\ metricsTable' = metricsTable
                     /\ syncStatus' = "error"
                     /\ syncError' = "Metrics push failed"
               /\ commit' = "user"
          ELSE UNCHANGED <<metricsHistory, metricsTable, commit, syncStatus, syncError>>
    /\ metrics' = EmptyForm
    /\ ops' = ops + 1
    /\ UNCHANGED <<now, todayData, todayStore, walkReminders, mindfulnessState, syncMeta,
                   hasInitialized, isApplyingSnapshot, microtask, sync,
                   row, reminders, call, result>>

\* handleSaveMetrics and the pushMetricEntry it starts: the POST is served, or the
\* fetch rejects and the catch block swallows it
handleSaveMetrics ==
    /\ ClientIdle
    /\ ops < MaxSaves
    /\ LET entry == entryOf(metrics, now)
       IN IF hasValues(entry)
          THEN /\ metricsHistory' = pushHistory(metricsHistory, entry)
               /\ \/ metricsTable' = postMetrics(metricsTable, entry, now)
                  \/ metricsTable' = metricsTable
               /\ commit' = "user"
          ELSE UNCHANGED <<metricsHistory, metricsTable, commit>>
    /\ metrics' = EmptyForm
    /\ ops' = ops + 1
    /\ UNCHANGED <<now, todayData, todayStore, walkReminders, mindfulnessState, syncCtl,
                   row, reminders, call, result>>

\* ---------------------------------------------------------------- offline session
\* the daily record a session may find: none, or one of today
LocalStoredToday ==
    {<<>>} \cup
    { <<[date |-> getToday(LocalNow), data |-> [hydration |-> HydrationStep, meditationCount |-> m]]>> :
        m \in {0, 1} }

InitLocal ==
    /\ now = LocalNow
    /\ todayStore \in LocalStoredToday
    /\ todayData = loadTodayData(todayStore, now)
    /\ walkReminders = DefaultReminders
    /\ metricsHistory \in {<<>>, PastHistory(HistoryCap - 1)}
    /\ \E r \in RandomDraws(Len(getMindfulnessPool(Exercises, getMindfulnessSlot(LocalNow)))) :
          mindfulnessState = Regenerated(LocalNow, r)
    /\ SyncAtRest
    /\ metrics = EmptyForm
    /\ ServiceAtRest
    /\ call = <<>>
    /\ result = <<>>

NextLocal ==
    \/ decreaseMeditation
    \/ increaseMeditation
    \/ typeMetrics
    \/ handleSaveMetrics
    \/ RunEffects

SpecLocal == InitLocal /\ [][NextLocal]_vars

\* C13: the check-in count is never negative; the decrement leaves 0 at 0 and
\* otherwise lowers the count by exactly 1; the increment raises it by exactly 1.
C13_MeditationCountNotNegative ==
    /\ [](todayData.meditationCount >= 0)
    /\ [][ /\ decreaseMeditation
              => todayData'.meditationCount =
                    IF todayData.meditationCount = 0 THEN 0
                    ELSE todayData.meditationCount - 1
           /\ increaseMeditation
              => todayData'.meditationCount = todayData.meditationCount + 1 ]_vars

\* the record a decrement wrote at count 0, and the change stamped
C13_Witness ==
    /\ todayStore = <<[date |-> getToday(now),
                       data |-> [hydration |-> 0, meditationCount |-> 0]]>>
    /\ syncMeta.updatedAt = now

\* C14: a save with every field of the form empty or blank changes neither the
\* history nor the metrics table of the service (no POST); a save with a field
\* present puts the new entry at the head of the history, in front of the former
\* entries in their order, the last of which is dropped when there were 50; the
\* history never holds more than 50 entries.
C14_SaveKeepsHistoryCapped ==
    /\ [](Len(metricsHistory) <= 50)
    /\ [][ handleSaveMetrics
           => IF \A f \in MetricFields : metrics[f] \in {"", " "}
              THEN UNCHANGED <<metricsHistory, metricsTable>>
              ELSE /\ Len(metricsHistory') =
                         IF Len(metricsHistory) < 50 THEN Len(metricsHistory) + 1 ELSE 50
                   /\ metricsHistory'[1].recordedAt = now
                   /\ \E f \in MetricFields : metricsHistory'[1][f] = metrics[f]
                                               /\ metrics[f] \notin {"", " "}
                   /\ \A i \in 2..Len(metricsHistory') :
                         metricsHistory'[i] = metricsHistory[i - 1] ]_vars

\* the second save of a session that found 49 entries: the oldest one is gone
C14_Witness ==
    /\ Len(metricsHistory) = 50
    /\ metricsHistory[1].recordedAt = now
    /\ metricsHistory[2].recordedAt = now
    /\ metricsHistory[50].recordedAt = 2

\* C15: getTrendStats answers every call; when the window holds no entry, or no
\* entry of the window has the requested field, the answer has count 0 and the
\* sentinel for latest, avg, min and max.
C15_NoDataIsCountZero ==
    (result # <<>> /\ call.fn = "getTrendStats")
    => /\ result[1].count \in Nat
       /\ LET start == IF call.range = "week" THEN call.clock - 7 * DayLen
                       ELSE IF call.range = "month" THEN call.clock - 30 * DayLen
                       ELSE 0
          IN (\A i \in 1..Len(call.history) :
                 \/ call.history[i].recordedAt < start
                 \/ call.history[i][call.metric] = "")
             => /\ result[1].count = 0
                /\ result[1].latest = "--" /\ result[1].avg = "--"
                /\ result[1].min = "--" /\ result[1].max = "--"

\* a week's window over entries that are all older or lack the field
C15_Witness ==
    /\ result # <<>> /\ call.fn = "getTrendStats"
    /\ call.range = "week" /\ call.metric = "heartRate"
    /\ Len(call.history) = 2
    /\ call.history[1].recordedAt = call.clock /\ call.history[1].heartRate = ""
    /\ call.history[2].recordedAt = call.clock - 7 * DayLen - 1
    /\ call.history[2].heartRate = "60"
    /\ result[1].count = 0

\* C16: the regeneration for a pool of N ids gives a current id and N - 1
\* remaining ids that together are a permutation of the ids of the pool; the
\* advance of a state whose remaining ids are exhausted gives the same state.
C16_QueueIsPermutation ==
    /\ (result # <<>> /\ call.fn = "regenerate")
       => LET shown == <<result[1].currentId>> \o result[1].remainingIds
              N == Len(call.pool)
          IN /\ Len(result[1].remainingIds) = N - 1
             /\ \A i \in 1..N : \E j \in 1..N : shown[j] = call.pool[i].id
             /\ \A i, j \in 1..N : shown[i] = shown[j] => i = j
    /\ (result # <<>> /\ call.fn = "advance" /\ call.state.remainingIds = <<>>)
       => result[1] = call.state

\* a pool of 3 whose last id came first
C16_Witness ==
    /\ result # <<>> /\ call.fn = "regenerate"
    /\ Len(call.pool) = 3
    /\ result[1].currentId = call.pool[3].id
    /\ Len(result[1].remainingIds) = 2

\* ================================================================ the service
\* The routes of server/index.js on their own: every request is handled in one
\* step (better-sqlite3 is synchronous), `call` holds the request and `result` the
\* answer.

\* a time of the day, as the reminders table and the clock of the service give it
Time(h, m) == [h |-> h, m |-> m]

\* parseInt(h) * 60 + parseInt(m)
minutesOf(time) == time.h * 60 + time.m

\* the rows seeded into an empty reminders table (type and description left out)
SeededReminders ==
    << [id |-> 1, time |-> Time(10, 0)], [id |-> 2, time |-> Time(14, 0)],
       [id |-> 3, time |-> Time(16, 30)], [id |-> 4, time |-> Time(8, 0)],
       [id |-> 5, time |-> Time(10, 0)], [id |-> 6, time |-> Time(12, 0)],
       [id |-> 7, time |-> Time(14, 0)], [id |-> 8, time |-> Time(16, 0)],
       [id |-> 9, time |-> Time(18, 0)], [id |-> 10, time |-> Time(20, 0)],
       [id |-> 11, time |-> Time(6, 0)], [id |-> 12, time |-> Time(21, 0)] >>

\* a table that was filled before the service started, so that nothing is seeded
OwnReminders ==
    << [id |-> 1, time |-> Time(8, 0)], [id |-> 2, time |-> Time(0, 2)] >>

RECURSIVE insertByTime(_, _, _)
insertByTime(sorted, reminder, i) ==
    IF i > Len(sorted) THEN Append(sorted, reminder)
    ELSE IF minutesOf(reminder.time) < minutesOf(sorted[i].time)
         THEN SubSeq(sorted, 1, i - 1) \o <<reminder>> \o SubSeq(sorted, i, Len(sorted))
         ELSE insertByTime(sorted, reminder, i + 1)

RECURSIVE orderByTime(_, _)
orderByTime(table, n) ==
    IF n = 0 THEN <<>> ELSE insertByTime(orderByTime(table, n - 1), table[n], 1)

\* SELECT id, type, time, description FROM reminders ORDER BY time ASC
selectReminders(table) == orderByTime(table, Len(table))

\* the completion maps a posted daily record may carry
CompletionMaps == { 1 :> TRUE, 1 :> FALSE @@ 2 :> TRUE }

\* what may be posted as `data`: snapshots of the client, which has no completion
\* map, daily records with one (the one that completes reminder 2 written the
\* day before), and a value without a daily record
ServiceSnapshots ==
    RemoteSnapshots \cup
    { [today |-> [date |-> IF 2 \in DOMAIN map THEN getToday(InitNow) - 1
                           ELSE getToday(InitNow),
                  data |-> [hydration |-> 0, meditationCount |-> 0, reminders |-> map]]] :
        map \in CompletionMaps } \cup
    { [metricsHistory |-> <<>>] }

\* the bodies of POST /api/snapshot: with and without a stamp, with and without data
Bodies ==
    [updatedAt : {0, InitNow - 1, InitNow}, data : {<<>>} \cup { <<d>> : d \in ServiceSnapshots }]

\* a completion that is read from a map of the snapshot itself
completedReminders_OfSnapshot(r) ==
    IF r = <<>> THEN <<>>
    ELSE IF JsonParse(r[1].payload) = <<>> THEN <<>>
    ELSE LET snapshotData == JsonParse(r[1].payload)[1]
         IN IF "reminders" \in DOMAIN snapshotData THEN snapshotData.reminders ELSE <<>>

\* completedReminders: snapshotData?.today?.data?.reminders of the row, or {}
completedReminders(r) ==
    IF r = <<>> THEN <<>>
    ELSE IF JsonParse(r[1].payload) = <<>> THEN <<>>
    ELSE LET snapshotData == JsonParse(r[1].payload)[1]
         IN IF "today" \in DOMAIN snapshotData
            THEN IF "reminders" \in DOMAIN snapshotData.today.data
                 THEN snapshotData.today.data.reminders ELSE <<>>
            ELSE <<>>

Abs(x) == IF x < 0 THEN -x ELSE x

\* remindersWithStatus
remindersWithStatus(table, r, clock) ==
    LET listed == selectReminders(table)
        completed == completedReminders(r)
    IN [i \in 1..Len(listed) |->
          [id |-> listed[i].id,
           time |-> listed[i].time,
           due |-> Abs(minutesOf(clock) - minutesOf(listed[i].time)) <= 5,
           completed |-> IF listed[i].id \in DOMAIN completed
                         THEN completed[listed[i].id] ELSE FALSE]]

\* the times of the clock at which reminders are asked for: around 08:00 and
\* around midnight, up to 8 minutes from the hour
ClockTimes ==
    { Time(h, m) : h \in {0, 7, 8, 23}, m \in {0, 2, 5, 6, 7, 8, 52, 53, 54, 55, 58} }

\* app.get('/api/snapshot')
getApiSnapshot ==
    /\ call' = <<[route |-> "GET /api/snapshot"]>>
    /\ result' = <<getSnapshot(row)>>
    /\ UNCHANGED <<clientVars, serviceVars>>

\* app.post('/api/snapshot')
postApiSnapshot ==
    \E body \in Bodies :
        /\ call' = <<[route |-> "POST /api/snapshot", body |-> body]>>
        /\ row' = postSnapshotRow(row, body, now)
        /\ result' = <<postSnapshotAnswer(body, now)>>
        /\ UNCHANGED <<clientVars, metricsTable, reminders>>

\* app.get('/api/reminders'): without the date query it returns before it reads
\* the clock
getApiReminders ==
    /\ \/ /\ call' = <<[route |-> "GET /api/reminders", date |-> <<>>]>>
          /\ result' = <<[status |-> 400]>>
       \/ \E clock \in ClockTimes :
             /\ call' = <<[route |-> "GET /api/reminders", date |-> <<getToday(now)>>,
                           clock |-> clock]>>
             /\ result' = <<[status |-> 200,
                             body |-> remindersWithStatus(reminders, row, clock)]>>
    /\ UNCHANGED <<clientVars, serviceVars>>

\* the rows the metrics table takes
MaxRows == 2

\* the bodies of POST /api/metrics: an entry of the client, and one without
\* recordedAt
MetricBodies ==
    { StoredEntry(InitNow - 1),
      [systolic |-> "120", diastolic |-> "80", heartRate |-> "", weight |-> "",
       respiratoryRate |-> ""] }

\* app.post('/api/metrics')
postApiMetrics ==
    /\ Len(metricsTable) < MaxRows
    /\ \E entry \in MetricBodies :
          /\ call' = <<[route |-> "POST /api/metrics", body |-> entry]>>
          /\ metricsTable' = postMetrics(metricsTable, entry, now)
    /\ result' = <<[status |-> 200]>>
    /\ UNCHANGED <<clientVars, row, reminders>>

InitService ==
    /\ ClientAtRest
    /\ row \in {<<>>, <<[payload |-> CorruptText, updated_at |-> InitNow]>>}
    /\ metricsTable = <<>>
    /\ reminders \in {SeededReminders, OwnReminders}
    /\ call = <<>>
    /\ result = <<>>

NextService ==
    \/ getApiSnapshot
    \/ postApiSnapshot
    \/ postApiMetrics
    \/ getApiReminders

SpecService == InitService /\ [][NextService]_vars

\* the answer to a served GET /api/reminders
RemindersAnswered ==
    /\ call # <<>>
    /\ call[1].route = "GET /api/reminders"
    /\ result[1].status = 200

\* the distance of two minutes of the day on the circle of 1440 minutes
CircularDistance(a, b) ==
    IF Abs(a - b) <= 1440 - Abs(a - b) THEN Abs(a - b) ELSE 1440 - Abs(a - b)

\* C17: a reminder is due exactly when the minimal circular distance, on the
\* 1440-minute day, between the current minute and its minute is at most 5.
C17_DueWithinFiveMinutesCircular ==
    RemindersAnswered
    => \A i \in 1..Len(result[1].body) :
          result[1].body[i].due
          <=> CircularDistance(call[1].clock.h * 60 + call[1].clock.m,
                               result[1].body[i].time.h * 60 + result[1].body[i].time.m) <= 5

\* C18: the `completed` of a reminder in the answer of GET /api/reminders is the
\* value for its id in the completion map of the today record of the stored
\* snapshot, and false when the map lacks the id, when there is no row, and when
\* the payload of the row does not parse.
C18_CompletedIsReadFromSnapshot ==
    RemindersAnswered
    => \A i \in 1..Len(result[1].body) :
          LET id == result[1].body[i].id
          IN result[1].body[i].completed =
                IF row = <<>> THEN FALSE
                ELSE IF row[1].payload = CorruptText THEN FALSE
                ELSE IF "today" \notin DOMAIN row[1].payload.value[1] THEN FALSE
                ELSE IF "reminders" \notin DOMAIN row[1].payload.value[1].today.data THEN FALSE
                ELSE IF id \notin DOMAIN row[1].payload.value[1].today.data.reminders THEN FALSE
                ELSE row[1].payload.value[1].today.data.reminders[id]

\* an answer with a reminder completed by the map and one the map lacks
C18_Witness ==
    /\ RemindersAnswered
    /\ row # <<>>
    /\ \E i, j \in 1..Len(result[1].body) :
          /\ result[1].body[i].completed /\ result[1].body[i].id = 2
          /\ ~result[1].body[j].completed /\ result[1].body[j].id = 3

\* C19: the snapshot table holds at most one row, and a GET that follows a POST
\* with a non-empty updatedAt u and data d answers exactly u and d, whatever the
\* row held before.
C19_PostReplacesRow ==
    /\ [](Len(row) <= 1)
    /\ [][ ( /\ call # <<>>
             /\ call[1].route = "POST /api/snapshot"
             /\ call[1].body.updatedAt # 0
             /\ call[1].body.data # <<>>
             /\ call'[1].route = "GET /api/snapshot" )
           => /\ result'[1].status = 200
              /\ result'[1].updatedAt = call[1].body.updatedAt
              /\ result'[1].data = call[1].body.data ]_vars

\* a row with an earlier stamp than the one it replaced
C19_Witness ==
    /\ call # <<>>
    /\ call[1].route = "GET /api/snapshot"
    /\ result[1].updatedAt = InitNow - 1
    /\ result[1].data # <<>>

\* ================================================================ progress of a sync
\* The sync protocol with the scheduling the runtime gives: React runs the effects
\* of a committed render and the queued microtask, and a fetch that was started
\* completes, by an answer or by a rejection.
FairSpec ==
    /\ Spec
    /\ WF_vars(RunEffects)
    /\ WF_vars(Microtask)
    /\ WF_vars(GetAnswered \/ PostAnswered \/ FetchThrows)

\* C20: syncStatus is one of idle, syncing, success, error and is idle at the
\* start; the start of a sync sets it to syncing; a sync that was started leaves
\* syncing for success or error once its network calls complete; the status
\* never becomes idle again.
C20_StartedSyncEnds ==
    /\ syncStatus = "idle"
    /\ [](syncStatus \in {"idle", "syncing", "success", "error"})
    /\ [][ /\ (sync.pc = "idle" /\ sync'.pc = "get") => syncStatus' = "syncing"
           /\ syncStatus # "idle" => syncStatus' # "idle"
           /\ (syncStatus = "syncing" /\ syncStatus' # "syncing")
              => syncStatus' \in {"success", "error"} ]_vars
    /\ (syncStatus = "syncing") ~> (syncStatus \in {"success", "error"})

\* a second sync of the session, started by the button, has failed
C20_Witness ==
    /\ syncStatus = "error"
    /\ sync.pc = "idle"
    /\ ops > 0
    /\ syncMeta.lastSyncedAt > InitNow

C22_RolloverStartsFresh ==
    [][ ( /\ addHydration
          /\ \/ todayStore = <<>>
             \/ todayStore[1].date # getToday(now) )
        => todayStore' = <<[date |-> getToday(now),
                            data |-> [hydration |-> 8, meditationCount |-> 0]]>> ]_vars

\* C23: every snapshot the client pushes carries a today record dated with the
\* client's date at the time of the push.
C23_PushedTodayIsToday ==
    [][ (sync.pc = "get" /\ sync'.pc = "post")
        => sync'.req[1].data[1].today.date = getToday(now) ]_vars

\* C24: when the effects of a render have run, the mindfulness state has today's
\* date, the current slot and a currentId of the current pool, whatever it was
\* before: the default of a first launch, a state of another day or slot, a state
\* just applied from a remote snapshot, or a state advanced into an id that is
\* not in the pool.
C24_RegeneratedWhenStale ==
    [][ RunEffects
        => /\ mindfulnessState'.date = now \div DayLen
           /\ mindfulnessState'.slot = getMindfulnessSlot(now)
           /\ \E i \in 1..Len(Exercises) :
                 /\ Exercises[i].id = mindfulnessState'.currentId
                 /\ \/ getMindfulnessSlot(now) \in Exercises[i].timeOfDay
                    \/ "anytime" \in Exercises[i].timeOfDay ]_vars

\* the regeneration that followed the applying of a remote snapshot of yesterday
C24_Witness ==
    /\ commit = "regen"
    /\ metricsHistory # <<>>
    /\ row # <<>> /\ row[1].payload # CorruptText
    /\ row[1].payload.value[1].mindfulness.date = getToday(now) - 1
    /\ mindfulnessState.date = getToday(now)
    /\ mindfulnessState.currentId # 0

\* within one round no id is presented twice
NonRepeating ==
    /\ \A i \in 1..Len(mindfulnessState.remainingIds) :
          mindfulnessState.remainingIds[i] # mindfulnessState.currentId
    /\ \A i, j \in 1..Len(mindfulnessState.remainingIds) :
          mindfulnessState.remainingIds[i] = mindfulnessState.remainingIds[j] => i = j

\* the last id of a round is shown
Exhausted ==
    /\ hasInitialized
    /\ mindfulnessState.currentId # 0
    /\ mindfulnessState.remainingIds = <<>>

\* C25: the presentation order is non-repeating and re-shuffled on exhaustion:
\* currentId is never among remainingIds, which has no duplicates, and once
\* remainingIds is empty a new round is started, so ids remain again.
C25_ReshuffledOnExhaustion ==
    /\ []NonRepeating
    /\ Exhausted ~> (mindfulnessState.remainingIds # <<>>)

\* C26: the pool of a slot is the exercises tagged with the slot or with anytime,
\* and the whole list when there is none; for a non-empty list the pool is not
\* empty.
C26_PoolFallsBackToAll ==
    (result # <<>> /\ call.fn = "getMindfulnessPool")
    => LET tagged == { i \in 1..Len(call.exercises) :
                         \/ call.slot \in call.exercises[i].timeOfDay
                         \/ "anytime" \in call.exercises[i].timeOfDay }
       IN /\ IF tagged # {}
             THEN /\ Len(result[1]) = Cardinality(tagged)
                  /\ \A i \in tagged : \E j \in 1..Len(result[1]) :
                        result[1][j] = call.exercises[i]
             ELSE result[1] = call.exercises
          /\ Len(call.exercises) > 0 => Len(result[1]) > 0

\* a morning pool of a list that has evening exercises only
C26_Witness ==
    /\ result # <<>> /\ call.fn = "getMindfulnessPool"
    /\ call.slot = "morning"
    /\ Len(call.exercises) = 1 /\ call.exercises[1].timeOfDay = {"evening"}
    /\ result[1] = call.exercises

\* C27: for a window with at least one value of the requested field, count is the
\* number of entries of the window that have the field, latest the value of the
\* newest of them (the first in the history), min and max the least and the
\* greatest value, and trend says whether the newest value is greater than,
\* less than or equal to the oldest one of the window.
C27_TrendStatsOfWindow ==
    (result # <<>> /\ call.fn = "getTrendStats")
    => LET start == IF call.range = "week" THEN call.clock - 7 * DayLen
                    ELSE IF call.range = "month" THEN call.clock - 30 * DayLen
                    ELSE 0
           present == { i \in 1..Len(call.history) :
                          /\ call.history[i].recordedAt >= start
                          /\ call.history[i][call.metric] # "" }
           value(i) == Number(call.history[i][call.metric])
           newest == CHOOSE i \in present : \A j \in present : i <= j
           oldest == CHOOSE i \in present : \A j \in present : i >= j
       IN present # {}
          => /\ result[1].count = Cardinality(present)
             /\ result[1].latest = value(newest)
             /\ \E i \in present : result[1].min = value(i)
             /\ \A i \in present : result[1].min <= value(i)
             /\ \E i \in present : result[1].max = value(i)
             /\ \A i \in present : result[1].max >= value(i)
             /\ result[1].trend = IF value(newest) > value(oldest) THEN "up"
                                  ELSE IF value(newest) < value(oldest) THEN "down"
                                  ELSE "flat"

\* a week with a heart rate of 72 today and of 60 seven days ago
C27_Witness ==
    /\ result # <<>> /\ call.fn = "getTrendStats"
    /\ call.range = "week" /\ call.metric = "heartRate"
    /\ Len(call.history) = 2
    /\ call.history[1].recordedAt = call.clock /\ call.history[1].heartRate = "72"
    /\ call.history[2].recordedAt = call.clock - 7 * DayLen
    /\ call.history[2].heartRate = "60"
    /\ result[1].count = 2 /\ result[1].trend = "up" /\ result[1].latest = 72

\* the step in which a first-run sync (no local updatedAt) is answered with a
\* stamped remote snapshot
FirstRunStep ==
    /\ GetStep
    /\ syncMeta.updatedAt = 0 /\ sync.cl.updatedAt = 0
    /\ HasData(sync'.resp[1]) /\ sync'.resp[1].updatedAt # 0

\* C28, as stated: on the first-run path the remote timestamp is recorded as both
\* the local updatedAt and the local lastSyncedAt.
C28_FirstRunRecordsRemoteStampTwice ==
    [][ FirstRunStep
        => /\ syncMeta'.updatedAt = sync'.resp[1].updatedAt
           /\ syncMeta'.lastSyncedAt = sync'.resp[1].updatedAt ]_vars

\* C28, amended: on the first-run path the remote timestamp is recorded as the
\* local updatedAt, and the clock of the client at that moment as lastSyncedAt.
C28_FirstRunRecordsStampAndClock ==
    [][ FirstRunStep
        => /\ syncMeta'.updatedAt = sync'.resp[1].updatedAt
           /\ syncMeta'.lastSyncedAt = now ]_vars

\* a first run applied a remote stamp older than the clock
C28_Witness ==
    /\ commit = "apply" /\ sync.cl.updatedAt = 0
    /\ sync.resp # <<>> /\ sync.resp[1].updatedAt # 0
    /\ syncMeta.updatedAt = sync.resp[1].updatedAt
    /\ syncMeta.lastSyncedAt = now
    /\ syncMeta.lastSyncedAt > syncMeta.updatedAt

\* the step in which the touch effect runs for a render a user action committed
UserTouchStep ==
    /\ RunEffects
    /\ commit = "user" /\ hasInitialized /\ ~isApplyingSnapshot

\* the step in which the running sync issues its POST
PushIssuedStep == sync.pc = "get" /\ sync'.pc = "post"

\* C29: a user mutation made after initialization advances the local updatedAt to
\* the clock, not below the time of the last reconciliation, and a sync that
\* pushes after the mutation sends, and so leaves in the remote row, the mutated
\* state: the reminder toggles, the mindfulness state and today's record as they
\* are locally when the POST is issued.
C29_MutationIsPushed ==
    [][ /\ UserTouchStep
           => (syncMeta'.updatedAt = now /\ syncMeta'.updatedAt >= syncMeta.lastSyncedAt)
        /\ (PushIssuedStep /\ ops > 0)
           => /\ sync'.req[1].data[1].reminders = walkReminders
              /\ sync'.req[1].data[1].mindfulness = mindfulnessState
              /\ todayStore # <<>> => sync'.req[1].data[1].today = todayStore[1] ]_vars

\* C30: the metrics table is append-only and independent of the snapshot row:
\* a POST /api/metrics adds exactly one row after the rows there were, which stay
\* as they were, and leaves the snapshot row; a POST /api/snapshot leaves the
\* metrics table.
C30_MetricsTableAppendOnly ==
    [][ /\ postApiMetrics
           => /\ Len(metricsTable') = Len(metricsTable) + 1
              /\ \A i \in 1..Len(metricsTable) : metricsTable'[i] = metricsTable[i]
              /\ row' = row
        /\ postApiSnapshot => metricsTable' = metricsTable
        /\ \A i \in 1..Len(metricsTable) :
              Len(metricsTable') >= i /\ metricsTable'[i] = metricsTable[i] ]_vars

\* two rows of the same entry, beside a snapshot row that was posted
C30_Witness ==
    /\ Len(metricsTable) = 2
    /\ metricsTable[1] = metricsTable[2]
    /\ metricsTable[1].recorded_at = InitNow - 1
    /\ row # <<>> /\ row[1].payload # CorruptText

\* ---------------------------------------------------------------- last properties
\* the row POST /api/metrics stores for an entry of the client
MetricRow(entry) ==
    [recorded_at |-> entry.recordedAt, systolic |-> entry.systolic,
     diastolic |-> entry.diastolic, heart_rate |-> entry.heartRate,
     weight |-> entry.weight, respiratory_rate |-> entry.respiratoryRate]

\* C31: the metric push is best-effort: a save whose POST /api/metrics failed
\* leaves the entry at the head of the local history and changes neither the sync
\* status nor the error message; the POST is not made again: the table of the
\* service changes only in the save that built the entry, by that entry's row.
C31_MetricPushIsBestEffort ==
    [][ /\ (handleSaveMetrics /\ hasValues(entryOf(metrics, now))
                              /\ metricsTable' = metricsTable)
           => /\ metricsHistory'[1] = entryOf(metrics, now)
              /\ UNCHANGED <<syncStatus, syncError, syncMeta, sync>>
        /\ handleSaveMetrics => UNCHANGED <<syncStatus, syncError>>
        /\ metricsTable' # metricsTable
           => /\ handleSaveMetrics
              /\ metricsTable' = Append(metricsTable, MetricRow(entryOf(metrics, now)))
              /\ metricsHistory'[1] = entryOf(metrics, now) ]_vars

\* two saves of a session, the POST of one of which failed: both entries are in
\* the history, one row is in the table, the failure of the mount sync still shown
C31_Witness ==
    /\ Len(metricsHistory) = 2
    /\ Len(metricsTable) = 1
    /\ hasValues(metricsHistory[1]) /\ hasValues(metricsHistory[2])
    /\ syncStatus = "error" /\ syncError = "Failed to fetch"
    /\ ops = 2

\* C32: the body a push sends is the client's state at the moment the POST is
\* issued: its snapshot is the snapshot of the current local state and its
\* updatedAt is the current local updatedAt (the clock when there is none), a
\* mutation made while the GET was in flight included.
C32_PushedBodyIsStateAtPost ==
    [][ PushIssuedStep
        => /\ sync'.req[1].data = <<LocalSnapshot>>
           /\ sync'.req[1].updatedAt =
                 IF syncMeta.updatedAt # 0 THEN syncMeta.updatedAt ELSE now ]_vars

\* a sync has just ended in success, its GET answered by the service and its
\* POST, if it made one, accepted; the session has seen n user actions and no
\* tick of the clock
SuccessfulSyncDone(n) ==
    /\ ops = n /\ now = InitNow
    /\ syncStatus = "success"
    /\ sync.pc = "idle" /\ sync.path \in {"push", "apply"}
    /\ sync.resp # <<>> /\ Ok(sync.resp[1])
    /\ sync.path = "push" => (sync.ans # <<>> /\ Ok(sync.ans[1]))

\* C33: sync is idempotent at quiescence: when the successful mount sync is
\* followed, with no user mutation and no other writer in between, by a second
\* successful sync (from the button, the only user action of the session), the
\* remote row answers what it answered to the GET of the second sync (payload and
\* updated_at), and the local state and the local updatedAt are those the second
\* sync started from.
C33_SecondSyncChangesNothing ==
    [](SuccessfulSyncDone(0)
       => [](SuccessfulSyncDone(1)
             => /\ getSnapshot(row) = sync.resp[1]
                /\ Closure = sync.cl))

\* ---------------------------------------------------------------- two devices
\* Two installations of the client share the service.  Of each, `call` holds what
\* syncWithServer reads and writes of the sync metadata: the local updatedAt, the
\* updatedAt its running sync closed over, and the body of its pending POST.
Devices == {1, 2}

\* what a device renders: device 2 has switched off its first walk reminder
DeviceClosure(d, stamp) ==
    [updatedAt |-> stamp, todayData |-> defaultTodayData,
     walkReminders |-> [DefaultReminders EXCEPT ![1] = (d = 1)],
     mindfulnessState |-> [date |-> getToday(InitNow), slot |-> getMindfulnessSlot(InitNow),
                           remainingIds |-> <<2>>, currentId |-> 3],
     metricsHistory |-> <<>>]

DeviceAtRest(stamp) == [pc |-> "idle", updatedAt |-> stamp, cl |-> stamp, req |-> <<>>]

\* a user mutation on device d, and the touch effect of its render
deviceTouch(d) ==
    /\ call[d].updatedAt # now
    /\ call' = [call EXCEPT ![d].updatedAt = now,
                            ![d].cl = IF call[d].pc = "idle" THEN now ELSE call[d].cl]
    /\ UNCHANGED <<clientVars, serviceVars, result>>

\* device d starts syncWithServer (mount effect or button)
deviceSyncStarts(d) ==
    /\ call[d].pc = "idle"
    /\ call' = [call EXCEPT ![d].pc = "get", ![d].cl = call[d].updatedAt]
    /\ UNCHANGED <<clientVars, serviceVars, result>>

\* the GET of device d is answered by the service: apply, or issue the POST
deviceGetAnswered(d) ==
    /\ call[d].pc = "get"
    /\ LET response == getSnapshot(row)
           branch == syncDecision(response, call[d].cl)
       IN call' = [call EXCEPT
                     ![d] = IF branch = "push"
                            THEN [@ EXCEPT !.pc = "post",
                                           !.req = <<pushBody(DeviceClosure(d, call[d].cl),
                                                              <<>>, now)>>]
                            ELSE DeviceAtRest(IF response.updatedAt # 0
                                              THEN response.updatedAt ELSE now)]
    /\ UNCHANGED <<clientVars, serviceVars, result>>

\* the POST of device d is served; pushSnapshot records the stamp it pushed
devicePostAnswered(d) ==
    /\ call[d].pc = "post"
    /\ row' = postSnapshotRow(row, call[d].req[1], now)
    /\ call' = [call EXCEPT ![d] = DeviceAtRest(call[d].req[1].updatedAt)]
    /\ UNCHANGED <<clientVars, metricsTable, reminders, result>>

InitClients ==
    /\ ClientAtRest
    /\ row \in {<<>>,
                <<[payload |-> JsonStringify(buildSnapshot(DeviceClosure(1, InitNow - 1),
                                                           <<>>, InitNow - 1)),
                   updated_at |-> InitNow - 1]>>}
    /\ metricsTable = <<>>
    /\ reminders = <<>>
    /\ call \in [Devices -> {DeviceAtRest(u) : u \in StoredStamps}]
    /\ result = <<>>

NextClients ==
    \/ \E d \in Devices : deviceTouch(d)
    \/ \E d \in Devices : deviceSyncStarts(d)
    \/ \E d \in Devices : deviceGetAnswered(d)
    \/ \E d \in Devices : devicePostAnswered(d)

SpecClients == InitClients /\ [][NextClients]_vars

\* C34: the updated_at of the remote row never decreases: across any
\* interleaving of the syncs of one or more clients, no step replaces a stored
\* snapshot by one with an older stamp.
C34_RemoteStampNeverDecreases ==
    [][ (row # <<>> /\ row' # <<>>) => row'[1].updated_at >= row[1].updated_at ]_vars

\* C35: GET /api/reminders?date=D reports a reminder as completed only from a
\* snapshot whose today record is dated D: a completion stored for another day
\* is not reported for the requested date.
C35_CompletedOnlyForRequestedDate ==
    RemindersAnswered
    => \A i \in 1..Len(result[1].body) :
          result[1].body[i].completed
          => /\ row # <<>>
             /\ JsonParse(row[1].payload) # <<>>
             /\ "today" \in DOMAIN JsonParse(row[1].payload)[1]
             /\ JsonParse(row[1].payload)[1].today.date = call[1].date[1]

\* the step in which POST /api/snapshot is served
SnapshotPosted == call' # <<>> /\ call'[1].route = "POST /api/snapshot"

\* C36: whenever a snapshot row exists its updated_at is not empty; a POST
\* /api/snapshot whose updatedAt is missing or empty stores the current time of
\* the service and answers that stamp, one with a stamp stores and answers it; a
\* POST without data is answered 400 and leaves the row as it was.
C36_RowStampNotEmpty ==
    /\ [](row # <<>> => row[1].updated_at # 0)
    /\ [][ SnapshotPosted
           => LET body == call'[1].body
              IN IF body.data = <<>>
                 THEN result'[1].status = 400 /\ row' = row
                 ELSE /\ result'[1].status = 200
                      /\ row'[1].updated_at = IF body.updatedAt = 0 THEN now
                                               ELSE body.updatedAt
                      /\ result'[1].updatedAt = row'[1].updated_at ]_vars

\* a POST without a stamp has been stored under the time of the service, over a
\* row that was there
C36_Witness ==
    /\ call # <<>> /\ call[1].route = "POST /api/snapshot"
    /\ call[1].body.updatedAt = 0 /\ call[1].body.data # <<>>
    /\ call[1].body.data[1] \in RemoteSnapshots
    /\ result[1] = [status |-> 200, updatedAt |-> now, data |-> <<>>]
    /\ row[1].updated_at = now
    /\ metricsTable # <<>>
====
